---------------------------- MODULE Spec2Model ----------------------------
(***************************************************************************)
(* A model of the AFNS plugin shim (afns_engine.cc) and of the GTK demo    *)
(* shell (afns_gui_demo.c).                                                *)
(*                                                                         *)
(* Strings are TLA+ strings; std::string positions are 0-based as in the   *)
(* source, and SubSeq is 1-based, so an offset p of the source is the      *)
(* character p+1 here.                                                     *)
(***************************************************************************)
EXTENDS Integers, Sequences, FiniteSets, TLC

VARIABLES
    \* ---- one AFNSEngineExtension instance driven method by method (Spec)
    internal_afns_state_,   \* the instance's private field
    lastOp,                 \* the method called last ("none" before any)
    lastArg,                \* its argument
    lastRet,                \* what it returned
    \* ---- one compile/execute call taken statement by statement (SpecCall)
    c_op,                   \* "compile" or "execute"
    afns_code,              \* the call's argument
    c_state,                \* internal_afns_state_ of the instance called
    result,                 \* ProcessAFNSCode's local `result`
    pos,                    \* ProcessAFNSCode's local `pos`
    pc,                     \* position in the call
    ret,                    \* the call's return value
    replacements,           \* how many times line 108 has run in this call
    pass,                   \* 1: the first call, 2: the call on its own output
    first_code,             \* the first call's argument
    first_ret,              \* what the first call returned
    \* ---- the demo shell (SpecDemo)
    afns_result_buffer,     \* the global char[1024], as the string it holds
    text_buffer,            \* the text of the GtkTextBuffer shown
    clicks,                 \* the buttons clicked so far, oldest first
    \* ---- the process the plugin is loaded into (SpecABI, SpecConc)
    platform,               \* the macro the file was compiled under
    loaded,                 \* the library is loaded and its entry points callable
    g_afns_engine,          \* the unique_ptr: NULL or the instance it owns
    engines,                \* the instances made by make_unique that exist
    constructed,            \* how many of them were ever made (the last id given)
    hookCalls,              \* how many platform hooks have run
    lastHook,               \* the hook that ran last
    returned,               \* what its GetAFNSEngine call returned
    abiOp,                  \* the JNI entry point called last ("none" before any)
    abiArg,                 \* its argument
    abiRet,                 \* what it returned
    abiLocal,               \* the state of its local engine when it returned
    \* ---- two host threads (SpecConc)
    tpc,                    \* each thread's position
    targ,                   \* each thread's JNI call: its entry point and argument
    tlocal,                 \* each thread's local engine: its state, or "none"
    raced                   \* a conflicting access was made while another was pending

classVars == <<internal_afns_state_, lastOp, lastArg, lastRet>>
callVars  == <<c_op, afns_code, c_state, result, pos, pc, ret, replacements,
               pass, first_code, first_ret>>
demoVars  == <<afns_result_buffer, text_buffer, clicks>>
procVars  == <<platform, loaded, g_afns_engine, engines, constructed,
               hookCalls, lastHook, returned>>
abiVars   == <<abiOp, abiArg, abiRet, abiLocal>>
concVars  == <<tpc, targ, tlocal, raced>>
vars      == <<classVars, callVars, demoVars, procVars, abiVars, concVars>>

---------------------------------------------------------------------------
(* Bounds of the model.                                                    *)

\* Inputs of a statement-by-statement call are up to MaxTokens tokens long.
MaxTokens == 3
\* Inputs of the method-by-method instance are up to MaxCallTokens tokens long.
MaxCallTokens == 1
\* The demo shell is followed for up to MaxClicks button clicks.
MaxClicks == 3
\* The process is followed for up to MaxHookCalls calls of its platform hooks.
MaxHookCalls == 4

---------------------------------------------------------------------------
(* The literals of afns_engine.cc.                                         *)

ENGINE_ACTIVE     == "AFNS_ENGINE_ACTIVE"
ERR_INVALID_CODE  == "error: invalid_afns_code"
ERR_INVALID_LOGIC == "error: invalid_afns_logic"
COMPILE_PREFIX    == "Flutter Widget Generated from AFNS: "
EXECUTED_PREFIX   == "EXECUTED: "
FUN_TOKEN         == "fun "
WIDGET_TOKEN      == "Widget "
\* std::string::npos: no position.
npos              == -1
\* result.replace(pos, 4, ...): the number of characters replaced.
ReplaceCount      == 4
\* pos += 6
PosAdvance        == 6
\* The empty unique_ptr.
NULL              == 0

---------------------------------------------------------------------------
(* std::string                                                             *)

\* s.find(pat, from): the least offset >= from at which pat occurs, or npos.
Find(s, pat, from) ==
    LET hits == { i \in from .. (Len(s) - Len(pat)) :
                    SubSeq(s, i + 1, i + Len(pat)) = pat }
    IN  IF hits = {} THEN npos
        ELSE CHOOSE i \in hits : \A j \in hits : i <= j

\* s.replace(at, n, rep): the n characters from offset at (fewer at the end
\* of s) give way to rep.
Replace(s, at, n, rep) ==
    LET m == IF at + n > Len(s) THEN Len(s) - at ELSE n
    IN  SubSeq(s, 1, at) \o rep \o SubSeq(s, at + m + 1, Len(s))

---------------------------------------------------------------------------
(* AFNSEngineExtension                                                     *)

\* The constructor: the state a new instance starts with.
AFNSEngineExtension == ENGINE_ACTIVE

\* A validation that lets the empty string through.
ValidateAFNSCode_AcceptsEmpty(code) == Len(code) >= 0

ValidateAFNSCode(code) == code # "" /\ Len(code) > 0

\* A search for the keyword without the space that ends it.
LoopFind_NoSpace(res, p) == Find(res, "fun", p)

\* The condition of the while loop: (pos = result.find("fun ", pos)) != npos.
LoopFind(res, p) == Find(res, FUN_TOKEN, p)

\* The body of the while loop, entered with pos already set to the match:
\* a bug that steps past the text that follows the inserted token.
LoopBody_SkipsAhead(res, at) ==
    [result |-> Replace(res, at, ReplaceCount, WIDGET_TOKEN),
     pos    |-> at + PosAdvance + ReplaceCount]

\* The body of the while loop, entered with pos already set to the match.
LoopBody(res, at) ==
    [result |-> Replace(res, at, ReplaceCount, WIDGET_TOKEN),
     pos    |-> at + PosAdvance]

RECURSIVE ProcessLoop(_, _)
ProcessLoop(res, p) ==
    LET at == LoopFind(res, p)
    IN  IF at = npos THEN res
        ELSE LET nx == LoopBody(res, at) IN ProcessLoop(nx.result, nx.pos)

ProcessAFNSCode(code) == ProcessLoop(code, 0)

\* Each method is its effect on the instance: the field afterwards and the
\* value returned.
CompileAFNSWidget(state, code) ==
    IF ~ValidateAFNSCode(code)
    THEN [state |-> state, ret |-> ERR_INVALID_CODE]
    ELSE [state |-> state, ret |-> COMPILE_PREFIX \o ProcessAFNSCode(code)]

\* An execute that stores the text it was given, not the processed text.
ExecuteAFNSLogic_StoresRaw(state, code) ==
    IF ~ValidateAFNSCode(code)
    THEN [state |-> state, ret |-> ERR_INVALID_LOGIC]
    ELSE [state |-> EXECUTED_PREFIX \o code, ret |-> ProcessAFNSCode(code)]

\* An execute that writes the state before it looks at the validation.
ExecuteAFNSLogic_WritesFirst(state, code) ==
    LET processed_code == ProcessAFNSCode(code)
    IN  IF ~ValidateAFNSCode(code)
        THEN [state |-> EXECUTED_PREFIX \o processed_code,
              ret   |-> ERR_INVALID_LOGIC]
        ELSE [state |-> EXECUTED_PREFIX \o processed_code,
              ret   |-> processed_code]

ExecuteAFNSLogic(state, code) ==
    IF ~ValidateAFNSCode(code)
    THEN [state |-> state, ret |-> ERR_INVALID_LOGIC]
    ELSE LET processed_code == ProcessAFNSCode(code)
         IN  [state |-> EXECUTED_PREFIX \o processed_code,
              ret   |-> processed_code]

\* A setter that validates like compile and execute do.
UpdateAFNSSState_RejectsEmpty(state, s) ==
    [state |-> IF s = "" THEN state ELSE s, ret |-> ""]

UpdateAFNSSState(state, s) == [state |-> s, ret |-> ""]

GetAFNSSState(state) == [state |-> state, ret |-> state]

---------------------------------------------------------------------------
(* The inputs.                                                             *)

Tokens == {"fun ", "fun", "f", " ", "Fun ", "x"}

RECURSIVE Concat(_)
Concat(seq) == IF seq = <<>> THEN "" ELSE Head(seq) \o Concat(Tail(seq))

TokenStrings(n) ==
    { Concat(seq) : seq \in UNION { [1..k -> Tokens] : k \in 0..n } }

\* Arguments of the statement-by-statement call.
CallCodes == TokenStrings(MaxTokens)

\* Arguments of compile and execute on the instance: short token strings, the
\* example of the specification, and the literals the code itself returns.
MethodCodes ==
    TokenStrings(MaxCallTokens)
        \cup {"fun main", "fun fun ", ERR_INVALID_CODE, ERR_INVALID_LOGIC}

\* Arguments of the setter.
SetterStates == {"", "s", "fun ", ENGINE_ACTIVE, "EXECUTED: x"}

---------------------------------------------------------------------------
(* Spec: one instance, its public methods called in any order.             *)

ClassInit ==
    /\ internal_afns_state_ = AFNSEngineExtension
    /\ lastOp = "none"
    /\ lastArg = ""
    /\ lastRet = ""

\* The variables of a call that is not being followed statement by statement.
CallIdle ==
    /\ c_op = "none"
    /\ afns_code = ""
    /\ c_state = ""
    /\ result = ""
    /\ pos = 0
    /\ pc = "idle"
    /\ ret = ""
    /\ replacements = 0
    /\ pass = 0
    /\ first_code = ""
    /\ first_ret = ""

\* The variables of the demo shell while it is not running.
DemoIdle ==
    /\ afns_result_buffer = ""
    /\ text_buffer = ""
    /\ clicks = <<>>

\* The variables of the process while no process is followed.
ProcIdle ==
    /\ platform = "none"
    /\ loaded = FALSE
    /\ g_afns_engine = NULL
    /\ engines = {}
    /\ constructed = 0
    /\ hookCalls = 0
    /\ lastHook = "none"
    /\ returned = NULL

AbiIdle ==
    /\ abiOp = "none"
    /\ abiArg = ""
    /\ abiRet = ""
    /\ abiLocal = ""

Threads == {1, 2}

ConcIdle ==
    /\ tpc = [t \in Threads |-> "idle"]
    /\ targ = [t \in Threads |-> <<"none", "">>]
    /\ tlocal = [t \in Threads |-> "none"]
    /\ raced = FALSE

\* A method call on the instance: r is the method's effect.
Called(op, arg, r) ==
    /\ internal_afns_state_' = r.state
    /\ lastOp' = op
    /\ lastArg' = arg
    /\ lastRet' = r.ret

Compile ==
    \E code \in MethodCodes :
        /\ Called("compile", code, CompileAFNSWidget(internal_afns_state_, code))
        /\ UNCHANGED <<callVars, demoVars, procVars, abiVars, concVars>>

Execute ==
    \E code \in MethodCodes :
        /\ Called("execute", code, ExecuteAFNSLogic(internal_afns_state_, code))
        /\ UNCHANGED <<callVars, demoVars, procVars, abiVars, concVars>>

Update ==
    \E s \in SetterStates :
        /\ Called("update", s, UpdateAFNSSState(internal_afns_state_, s))
        /\ UNCHANGED <<callVars, demoVars, procVars, abiVars, concVars>>

Get ==
    /\ Called("get", "", GetAFNSSState(internal_afns_state_))
    /\ UNCHANGED <<callVars, demoVars, procVars, abiVars, concVars>>

Init == ClassInit /\ CallIdle /\ DemoIdle /\ ProcIdle /\ AbiIdle /\ ConcIdle

Next == Compile \/ Execute \/ Update \/ Get

Spec == Init /\ [][Next]_vars

---------------------------------------------------------------------------
(* SpecCall: one CompileAFNSWidget or ExecuteAFNSLogic call on a new       *)
(* instance, statement by statement, and then the same method called on    *)
(* what it returned.                                                       *)

ClassIdle ==
    /\ internal_afns_state_ = ""
    /\ lastOp = "none"
    /\ lastArg = ""
    /\ lastRet = ""

CallInit ==
    /\ c_op \in {"compile", "execute"}
    /\ afns_code \in CallCodes
    /\ c_state = AFNSEngineExtension
    /\ result = ""
    /\ pos = 0
    /\ pc = "validate"
    /\ ret = ""
    /\ replacements = 0
    /\ pass = 1
    /\ first_code = afns_code
    /\ first_ret = ""

\* if (!ValidateAFNSCode(afns_code)) return "error: ..."; else result = code.
CallValidate ==
    /\ pc = "validate"
    /\ IF ~ValidateAFNSCode(afns_code)
       THEN /\ ret' = (IF c_op = "compile" THEN ERR_INVALID_CODE
                                          ELSE ERR_INVALID_LOGIC)
            /\ pc' = "done"
            /\ UNCHANGED <<result, pos>>
       ELSE /\ result' = afns_code
            /\ pos' = 0
            /\ pc' = "loop"
            /\ UNCHANGED ret
    /\ UNCHANGED <<c_op, afns_code, c_state, replacements, pass, first_code,
                   first_ret, classVars, demoVars, procVars, abiVars,
                   concVars>>

\* One iteration of the while loop of ProcessAFNSCode.
CallLoopIter ==
    /\ pc = "loop"
    /\ LoopFind(result, pos) # npos
    /\ LET nx == LoopBody(result, LoopFind(result, pos))
       IN  /\ result' = nx.result
           /\ pos' = nx.pos
    /\ replacements' = replacements + 1
    /\ UNCHANGED <<c_op, afns_code, c_state, pc, ret, pass, first_code,
                   first_ret, classVars, demoVars, procVars, abiVars,
                   concVars>>

\* find returned npos: the loop ends and ProcessAFNSCode returns result.
CallLoopExit ==
    /\ pc = "loop"
    /\ LoopFind(result, pos) = npos
    /\ pc' = "return"
    /\ UNCHANGED <<c_op, afns_code, c_state, result, pos, ret, replacements,
                   pass, first_code, first_ret, classVars, demoVars, procVars, abiVars,
                   concVars>>

\* The statements after ProcessAFNSCode: lines 68, and 80 to 82.
CallReturn ==
    /\ pc = "return"
    /\ IF c_op = "compile"
       THEN /\ ret' = COMPILE_PREFIX \o result
            /\ UNCHANGED c_state
       ELSE /\ c_state' = EXECUTED_PREFIX \o result
            /\ ret' = result
    /\ pc' = "done"
    /\ UNCHANGED <<c_op, afns_code, result, pos, replacements, pass,
                   first_code, first_ret, classVars, demoVars, procVars, abiVars,
                   concVars>>

\* The caller passes what the first call returned to the same method.
CallAgain ==
    /\ pc = "done"
    /\ pass = 1
    /\ pass' = 2
    /\ first_ret' = ret
    /\ afns_code' = ret
    /\ result' = ""
    /\ pos' = 0
    /\ ret' = ""
    /\ replacements' = 0
    /\ pc' = "validate"
    /\ UNCHANGED <<c_op, c_state, first_code, classVars, demoVars, procVars,
                   abiVars, concVars>>

InitCall ==
    ClassIdle /\ CallInit /\ DemoIdle /\ ProcIdle /\ AbiIdle /\ ConcIdle

NextCall ==
    CallValidate \/ CallLoopIter \/ CallLoopExit \/ CallReturn \/ CallAgain

SpecCall == InitCall /\ [][NextCall]_vars

---------------------------------------------------------------------------
(* What the specification says the substitution is, stated without the     *)
(* loop: the text is read once from the left; where "fun " starts, it is   *)
(* replaced by "Widget " and reading goes on after it; any other character *)
(* is kept.                                                                *)

RECURSIVE Substituted(_)
Substituted(s) ==
    IF s = "" THEN ""
    ELSE IF Len(s) >= 4 /\ SubSeq(s, 1, 4) = "fun "
         THEN "Widget " \o Substituted(SubSeq(s, 5, Len(s)))
         ELSE SubSeq(s, 1, 1) \o Substituted(SubSeq(s, 2, Len(s)))

\* The offsets at which "fun " occurs in s.
Occurrences(s) == { i \in 0 .. (Len(s) - 4) : SubSeq(s, i + 1, i + 4) = "fun " }

HasFun(s) == Occurrences(s) # {}

---------------------------------------------------------------------------
(* Claims about one instance (Spec).                                       *)

\* C1: after a successful execute(X) the call has returned the substituted
\* form of X, the field holds "EXECUTED: " followed by it, and a state read
\* that follows returns exactly that; execute("fun main") returns
\* "Widget main" and leaves "EXECUTED: Widget main".
C1_ExecuteThenRead ==
    /\ [](lastOp = "execute" /\ lastArg # ""
            => /\ lastRet = Substituted(lastArg)
               /\ internal_afns_state_ = "EXECUTED: " \o Substituted(lastArg)
               /\ (lastArg = "fun main"
                     => /\ lastRet = "Widget main"
                        /\ internal_afns_state_ = "EXECUTED: Widget main"))
    /\ [][lastOp = "execute" /\ lastArg # "" /\ lastOp' = "get"
            => lastRet' = "EXECUTED: " \o Substituted(lastArg)]_vars

C1_Witness ==
    /\ lastOp = "get"
    /\ lastRet = "EXECUTED: Widget main"

\* C3 as stated: compile and execute answer the empty string with one and
\* the same sentinel, and no non-empty input is answered with a sentinel.
C3_OneSentinel ==
    /\ [][(lastOp \in {"compile", "execute"} /\ lastArg = ""
             /\ lastOp' \in {"compile", "execute"} /\ lastArg' = "")
            => lastRet' = lastRet]_vars
    /\ [](lastOp \in {"compile", "execute"} /\ lastArg # ""
            => lastRet \notin {"error: invalid_afns_code",
                               "error: invalid_afns_logic"})

\* C3, amended: each operation has its own sentinel for the empty string,
\* returned bare; compile never answers a non-empty input with a sentinel;
\* execute answers a non-empty input with a sentinel only when the input is
\* that sentinel text itself, and then the call succeeded (the field was
\* overwritten).
C3_SentinelPerOperation ==
    /\ (lastOp = "compile" /\ lastArg = ""
          => lastRet = "error: invalid_afns_code")
    /\ (lastOp = "execute" /\ lastArg = ""
          => lastRet = "error: invalid_afns_logic")
    /\ (lastOp = "compile" /\ lastArg # ""
          => lastRet \notin {"error: invalid_afns_code",
                             "error: invalid_afns_logic"})
    /\ ((lastOp = "execute" /\ lastArg # ""
          /\ lastRet \in {"error: invalid_afns_code", "error: invalid_afns_logic"})
          => /\ lastArg = lastRet
             /\ internal_afns_state_ = "EXECUTED: " \o lastArg)

C3_Witness ==
    /\ lastOp = "compile"
    /\ lastArg = ""
    /\ lastRet = "error: invalid_afns_code"
    /\ internal_afns_state_ = "EXECUTED: Widget main"

\* C4: a compile or execute call given the empty string leaves the field as
\* it was, whatever it was, so a state read after the call returns what a
\* read before it would have.
C4_EmptyInputKeepsState ==
    /\ [][lastOp' \in {"compile", "execute"} /\ lastArg' = ""
            => internal_afns_state_' = internal_afns_state_]_vars
    /\ [][(lastOp \in {"compile", "execute"} /\ lastArg = ""
             /\ lastOp' = "get")
            => lastRet' = internal_afns_state_]_vars

C4_Witness ==
    /\ lastOp = "execute"
    /\ lastArg = ""
    /\ lastRet = "error: invalid_afns_logic"
    /\ internal_afns_state_ = "s"

\* C8: the setter stores any string, the empty one too, as it is; the getter
\* returns the field and leaves it alone, so a read after UpdateAFNSSState(s)
\* returns s.
C8_SetterGetter ==
    /\ [](lastOp = "update" => internal_afns_state_ = lastArg)
    /\ [][lastOp' = "get"
            => /\ lastRet' = internal_afns_state_
               /\ internal_afns_state_' = internal_afns_state_]_vars
    /\ [][lastOp = "update" /\ lastOp' = "get" => lastRet' = lastArg]_vars

C8_Witness ==
    /\ lastOp = "get"
    /\ lastRet = ""
    /\ internal_afns_state_ = ""

---------------------------------------------------------------------------
(* Claims about one call (SpecCall).                                       *)

\* C2: for a non-empty input compile returns the prefix followed by the
\* substituted input and execute returns the substituted input; line 108 has
\* run once per occurrence of "fun " in the input, every replacement adds
\* three characters, and an input without an occurrence comes back as it is.
C2_Substitution ==
    pc = "done" /\ afns_code # ""
      => /\ ret = (IF c_op = "compile"
                   THEN "Flutter Widget Generated from AFNS: "
                            \o Substituted(afns_code)
                   ELSE Substituted(afns_code))
         /\ replacements = Cardinality(Occurrences(afns_code))
         /\ Len(result) = Len(afns_code) + 3 * Cardinality(Occurrences(afns_code))
         /\ (~HasFun(afns_code) => result = afns_code)

C2_Witness ==
    /\ pc = "done"
    /\ c_op = "compile"
    /\ afns_code = "fun fun "
    /\ replacements = 2
    /\ ret = "Flutter Widget Generated from AFNS: Widget Widget "

\* C10: the loop runs at most once per four characters of the input, so it
\* ends; what it returns holds no "fun "; and execute on what execute
\* returned for a non-empty input returns the same text, replacing nothing.
C10_Idempotent ==
    /\ replacements * 4 <= Len(afns_code)
    /\ (pc \in {"return", "done"} /\ afns_code # "" => ~HasFun(result))
    /\ (pc = "done" /\ pass = 2 /\ c_op = "execute" /\ first_code # ""
          => /\ ret = first_ret
             /\ replacements = 0)

C10_Witness ==
    /\ pc = "done"
    /\ pass = 2
    /\ c_op = "execute"
    /\ first_code = "fun fun "
    /\ first_ret = "Widget Widget "
    /\ ret = "Widget Widget "

---------------------------------------------------------------------------
(* SpecDemo: the demo shell, afns_gui_demo.c.  Characters outside ASCII    *)
(* are written <U+XXXX>; "\n" is the newline of the C literal.             *)

\* afns_gui_demo.c, line 103.
READY_TEXT ==
    "<U+1F3A8> AFNS GUI Application Ready!\n\nClick buttons abo"
        \o "ve to test AFNS Flutter functions...\n\n<U+2705> AFNS Comp"
        \o "iler: Built successfully\n<U+2705> Flutter Integration: Re"
        \o "ady\n<U+2705> Cross-platform: Linux/Windows/macOS/Android/"
        \o "iOS/Web\n<U+2705> Professional GUI: Fully functional"

\* afns_gui_demo.c, line 12.
INIT_TEXT ==
    "<U+1F680> AFNS Flutter Integration Initialized!\nPlatform:"
        \o " Cross-platform Native\nPerformance: Maximum Speed"

\* afns_gui_demo.c, line 17.
WINDOW_TEXT ==
    "FlutterWindow(id::string = \"main\", title::string = \"AFN"
        \o "S Professional Flutter Application\", width::i32 = 1024, h"
        \o "eight::i32 = 768)"

\* afns_gui_demo.c, line 22.
BUTTON_TEXT ==
    "FlutterButton(id::string = \"btn_save\", text::string = \""
        \o "Save Project\", x::i32 = 50, y::i32 = 50)"

\* afns_gui_demo.c, line 27.
TEXTFIELD_TEXT ==
    "FlutterTextField(id::string = \"txt_project\", placeholder"
        \o "::string = \"Project Name\", x::i32 = 50, y::i32 = 100, wi"
        \o "dth::i32 = 200)"

\* afns_gui_demo.c, line 32.
DIALOG_TEXT ==
    "FlutterDialog(title::string = \"Success\", message::string"
        \o " = \"AFNS GUI Application is working!\", modal::bool = tru"
        \o "e)"

\* afns_gui_demo.c, line 37.
DEMO_TEXT ==
    "<U+1F3A8> AFNS GUI Demo Running!\n========================"
        \o "===\n<U+2705> All Flutter components initialized\n<U+2705>"
        \o " Cross-platform compatibility: 100%\n<U+2705> Performance:"
        \o " Maximum speed\n<U+2705> Professional GUI: Working!\n\n<U+"
        \o "1F48E> AFNS Language = Professional GUI Platform!"

\* strcpy with a destination that grows: a bug that keeps what was there.
strcpy_Appends(dest, src) == dest \o src

\* strcpy(dest, src): dest holds src, whatever it held.  Every literal
\* copied is shorter than the 1024 bytes of afns_result_buffer.
strcpy(dest, src) == src

\* gtk_text_buffer_set_text(buffer, text, -1): the buffer's text is text.
gtk_text_buffer_set_text(buffer, text) == text

\* The body every callback shares, for the literal it copies.
Callback(button, literal) ==
    /\ Len(clicks) < MaxClicks
    /\ afns_result_buffer' = strcpy(afns_result_buffer, literal)
    /\ text_buffer' = gtk_text_buffer_set_text(text_buffer, afns_result_buffer')
    /\ clicks' = Append(clicks, button)
    /\ UNCHANGED <<classVars, callVars, procVars, abiVars, concVars>>

afns_init_callback             == Callback("init_btn", INIT_TEXT)
afns_create_window_callback    == Callback("window_btn", WINDOW_TEXT)
afns_create_button_callback    == Callback("button_btn", BUTTON_TEXT)
afns_create_textfield_callback == Callback("textfield_btn", TEXTFIELD_TEXT)
afns_show_dialog_callback      == Callback("dialog_btn", DIALOG_TEXT)
afns_run_demo_callback         == Callback("demo_btn", DEMO_TEXT)

\* main, lines 102 to 104: the state when the main loop starts.
DemoInit ==
    /\ afns_result_buffer = strcpy("", READY_TEXT)
    /\ text_buffer = gtk_text_buffer_set_text("", afns_result_buffer)
    /\ clicks = <<>>

InitDemo ==
    ClassIdle /\ CallIdle /\ DemoInit /\ ProcIdle /\ AbiIdle /\ ConcIdle

NextDemo ==
    \/ afns_init_callback
    \/ afns_create_window_callback
    \/ afns_create_button_callback
    \/ afns_create_textfield_callback
    \/ afns_show_dialog_callback
    \/ afns_run_demo_callback

SpecDemo == InitDemo /\ [][NextDemo]_vars

\* The literal the signal wiring of main (lines 109 to 114) ties to a button.
ButtonLiteral(button) ==
    CASE button = "init_btn"      -> INIT_TEXT
      [] button = "window_btn"    -> WINDOW_TEXT
      [] button = "button_btn"    -> BUTTON_TEXT
      [] button = "textfield_btn" -> TEXTFIELD_TEXT
      [] button = "dialog_btn"    -> DIALOG_TEXT
      [] button = "demo_btn"      -> DEMO_TEXT

\* C6: before any click the buffer and the text shown are the ready text;
\* after any sequence of clicks both are exactly the literal of the button
\* clicked last, so a click never adds to what was there and clicking a
\* button again changes nothing.
C6_ClickOverwrites ==
    /\ [](IF clicks = <<>>
          THEN /\ afns_result_buffer = READY_TEXT
               /\ text_buffer = READY_TEXT
          ELSE /\ afns_result_buffer = ButtonLiteral(clicks[Len(clicks)])
               /\ text_buffer = ButtonLiteral(clicks[Len(clicks)]))
    /\ [][(clicks # <<>> /\ Len(clicks') = Len(clicks) + 1
             /\ clicks'[Len(clicks')] = clicks[Len(clicks)])
            => /\ afns_result_buffer' = afns_result_buffer
               /\ text_buffer' = text_buffer]_vars

C6_Witness ==
    /\ clicks = <<"demo_btn", "init_btn", "init_btn">>
    /\ text_buffer = INIT_TEXT

---------------------------------------------------------------------------
(* SpecABI: the process the library is loaded into.  The host calls the    *)
(* platform hooks and the two JNI entry points one at a time.              *)

\* An instance made by make_unique: its identity and its field.
Instance(id, state) == [id |-> id, internal_afns_state_ |-> state]

\* GetAFNSEngine without its test: a new instance on every call.
GetAFNSEngine_AlwaysConstructs(g, heap, n) ==
    [g       |-> n + 1,
     engines |-> { e \in heap : e.id # g }
                    \cup {Instance(n + 1, AFNSEngineExtension)},
     constructed |-> n + 1,
     ret     |-> n + 1]

\* GetAFNSEngine, for the pointer g, the instances heap and the count n of
\* instances made so far: what they become, and the pointer returned.
\* Assigning to the unique_ptr destroys the instance it owned.
GetAFNSEngine(g, heap, n) ==
    IF g = NULL
    THEN [g       |-> n + 1,
          engines |-> { e \in heap : e.id # g }
                         \cup {Instance(n + 1, AFNSEngineExtension)},
          constructed |-> n + 1,
          ret     |-> n + 1]
    ELSE [g |-> g, engines |-> heap, constructed |-> n, ret |-> g]

\* g_afns_engine.reset(): the instance owned, if any, is destroyed.
ResetAFNSEngine(g, heap, n) ==
    [g |-> NULL, engines |-> { e \in heap : e.id # g }, constructed |-> n,
     ret |-> NULL]

\* env->GetStringUTFChars and std::string(code): the characters of the Java
\* string in modified UTF-8, read up to the first zero byte.  The inputs of
\* this model are ASCII without a zero character, which that encoding and
\* that constructor keep as they are.
GetStringUTFChars(jstr) == jstr

\* env->NewStringUTF(result.c_str()): the same, in the other direction.
NewStringUTF(str) == str

\* The two JNI entry points: each makes an engine of its own on its stack,
\* calls it, and returns; `local` is that engine's field when it goes away.
Java_io_flutter_plugin_afns_AFNSEngine_nativeCompileAFNSWidget(jcode) ==
    LET afns_engine == AFNSEngineExtension
        r == CompileAFNSWidget(afns_engine, GetStringUTFChars(jcode))
    IN  [ret |-> NewStringUTF(r.ret), local |-> r.state]

Java_io_flutter_plugin_afns_AFNSEngine_nativeExecuteAFNSLogic(jcode) ==
    LET afns_engine == AFNSEngineExtension
        r == ExecuteAFNSLogic(afns_engine, GetStringUTFChars(jcode))
    IN  [ret |-> NewStringUTF(r.ret), local |-> r.state]

Platforms == {"ANDROID", "LINUX", "WINDOWS", "MACOS"}

\* JNI_OnLoad and DllMain run when the library is loaded; the Linux and
\* macOS builds have no load hook, only an init function to call.
ProcInit ==
    /\ platform \in Platforms
    /\ loaded = (platform \in {"LINUX", "MACOS"})
    /\ g_afns_engine = NULL
    /\ engines = {}
    /\ constructed = 0
    /\ hookCalls = 0
    /\ lastHook = "none"
    /\ returned = NULL

\* A hook has run: r is what it did to the holder.
Hooked(name, r) ==
    /\ hookCalls < MaxHookCalls
    /\ hookCalls' = hookCalls + 1
    /\ lastHook' = name
    /\ g_afns_engine' = r.g
    /\ engines' = r.engines
    /\ constructed' = r.constructed
    /\ returned' = r.ret
    /\ UNCHANGED <<platform, classVars, callVars, demoVars, abiVars, concVars>>

\* A hook that does not touch the holder.
NoAccess == [g |-> g_afns_engine, engines |-> engines,
             constructed |-> constructed, ret |-> returned]

JNI_OnLoad ==
    /\ platform = "ANDROID"
    /\ ~loaded
    /\ loaded' = TRUE
    /\ Hooked("JNI_OnLoad", GetAFNSEngine(g_afns_engine, engines, constructed))

afns_linux_init ==
    /\ platform = "LINUX"
    /\ UNCHANGED loaded
    /\ Hooked("afns_linux_init",
              GetAFNSEngine(g_afns_engine, engines, constructed))

afns_macos_init ==
    /\ platform = "MACOS"
    /\ UNCHANGED loaded
    /\ Hooked("afns_macos_init",
              GetAFNSEngine(g_afns_engine, engines, constructed))

\* DllMain: the loader calls it with DLL_PROCESS_ATTACH when the library is
\* loaded, with the thread reasons while it is, and with DLL_PROCESS_DETACH
\* when it is unloaded.
DllMain ==
    /\ platform = "WINDOWS"
    /\ \E fdwReason \in {"DLL_PROCESS_ATTACH", "DLL_PROCESS_DETACH",
                         "DLL_THREAD_ATTACH", "DLL_THREAD_DETACH"} :
          CASE fdwReason = "DLL_PROCESS_ATTACH" ->
                  /\ ~loaded
                  /\ loaded' = TRUE
                  /\ Hooked(fdwReason,
                            GetAFNSEngine(g_afns_engine, engines, constructed))
            [] fdwReason = "DLL_PROCESS_DETACH" ->
                  /\ loaded
                  /\ loaded' = FALSE
                  /\ Hooked(fdwReason,
                            ResetAFNSEngine(g_afns_engine, engines, constructed))
            [] OTHER ->
                  /\ loaded
                  /\ UNCHANGED loaded
                  /\ Hooked(fdwReason, NoAccess)

\* Arguments of the JNI entry points.
AbiCodes == MethodCodes

NativeCalled(op, jcode, r) ==
    /\ loaded
    /\ abiOp' = op
    /\ abiArg' = jcode
    /\ abiRet' = r.ret
    /\ abiLocal' = r.local
    /\ UNCHANGED <<procVars, classVars, callVars, demoVars, concVars>>

nativeCompileAFNSWidget ==
    \E jcode \in AbiCodes :
        NativeCalled("compile", jcode,
            Java_io_flutter_plugin_afns_AFNSEngine_nativeCompileAFNSWidget(jcode))

nativeExecuteAFNSLogic ==
    \E jcode \in AbiCodes :
        NativeCalled("execute", jcode,
            Java_io_flutter_plugin_afns_AFNSEngine_nativeExecuteAFNSLogic(jcode))

InitABI ==
    ClassIdle /\ CallIdle /\ DemoIdle /\ ProcInit /\ AbiIdle /\ ConcIdle

NextABI ==
    \/ JNI_OnLoad
    \/ afns_linux_init
    \/ afns_macos_init
    \/ DllMain
    \/ nativeCompileAFNSWidget
    \/ nativeExecuteAFNSLogic

SpecABI == InitABI /\ [][NextABI]_vars

\* The field of the instance GetAFNSEngine returns when called now.
SingletonState ==
    LET r == GetAFNSEngine(g_afns_engine, engines, constructed)
    IN  (CHOOSE e \in r.engines : e.id = r.ret).internal_afns_state_

\* C5 as stated: after a successful execute through the JNI entry point with
\* input X, the engine GetAFNSEngine returns holds "EXECUTED: " followed by
\* the substituted X, and goes on holding it until the next call.
C5_AbiExecuteSetsProcessState ==
    abiOp = "execute" /\ abiArg # ""
      => SingletonState = "EXECUTED: " \o Substituted(abiArg)

\* C7: calls being sequential, the holder is empty until the first access;
\* an access finding it empty makes one instance with state
\* "AFNS_ENGINE_ACTIVE"; an access finding an instance returns that one and
\* makes nothing; there is never more than one instance; and
\* DLL_PROCESS_DETACH destroys it, leaving none until the next access.
C7_LazySingleton ==
    /\ [](/\ Cardinality(engines) <= 1
          /\ (g_afns_engine = NULL => engines = {})
          /\ (g_afns_engine # NULL
                => engines = {Instance(g_afns_engine, "AFNS_ENGINE_ACTIVE")})
          /\ (hookCalls = 0 => g_afns_engine = NULL))
    /\ [][(hookCalls' = hookCalls + 1
             /\ lastHook' \in {"JNI_OnLoad", "afns_linux_init",
                               "afns_macos_init", "DLL_PROCESS_ATTACH"})
            => /\ returned' = g_afns_engine'
               /\ g_afns_engine' # NULL
               /\ IF g_afns_engine = NULL
                  THEN /\ constructed' = constructed + 1
                       /\ g_afns_engine' = constructed'
                  ELSE /\ g_afns_engine' = g_afns_engine
                       /\ engines' = engines
                       /\ constructed' = constructed]_vars
    /\ [][(hookCalls' = hookCalls + 1 /\ lastHook' = "DLL_PROCESS_DETACH")
            => g_afns_engine' = NULL /\ engines' = {}]_vars
    /\ [][hookCalls' = hookCalls
            => UNCHANGED <<g_afns_engine, engines, constructed>>]_vars

C7_Witness ==
    /\ platform = "WINDOWS"
    /\ lastHook = "DLL_PROCESS_ATTACH"
    /\ constructed = 2
    /\ g_afns_engine = 2
    /\ engines = {Instance(2, "AFNS_ENGINE_ACTIVE")}

---------------------------------------------------------------------------
(* SpecConc: two host threads in the Linux or macOS build, each calling    *)
(* the init function and the JNI entry points, statement by statement.     *)
(* The source takes no lock and uses no atomic, so a step never waits.     *)
(* JNI_OnLoad and DllMain are left out: the Java VM and the Windows loader *)
(* call them from one thread at a time.                                    *)

Other(t) == CHOOSE u \in Threads : u # t

\* The memory a thread's next statement touches: the place, and whether the
\* statement writes it.
HOLDER == <<"g_afns_engine", 0>>
LocalEngine(t) == <<"afns_engine.internal_afns_state_", t>>

Accesses(t) ==
    CASE tpc[t] = "get_test"   -> {[loc |-> HOLDER, write |-> FALSE]}
      [] tpc[t] = "get_assign" -> {[loc |-> HOLDER, write |-> TRUE]}
      [] tpc[t] = "get_return" -> {[loc |-> HOLDER, write |-> FALSE]}
      [] tpc[t] = "native_construct" ->
            {[loc |-> LocalEngine(t), write |-> TRUE]}
      [] tpc[t] = "native_call" ->
            {[loc |-> LocalEngine(t), write |-> targ[t][1] = "execute"]}
      [] OTHER -> {}

\* Thread t's next statement conflicts with the other thread's next one.
Conflict(t) ==
    \E a \in Accesses(t), b \in Accesses(Other(t)) :
        a.loc = b.loc /\ (a.write \/ b.write)

ConcCodes == {"", "fun main", "x"}

ConcInit ==
    /\ platform \in {"LINUX", "MACOS"}
    /\ loaded = TRUE
    /\ g_afns_engine = NULL
    /\ engines = {}
    /\ constructed = 0
    /\ hookCalls = 0
    /\ lastHook = "none"
    /\ returned = NULL
    /\ tpc = [t \in Threads |-> "idle"]
    /\ targ = [t \in Threads |-> <<"none", "">>]
    /\ tlocal = [t \in Threads |-> "none"]
    /\ raced = FALSE

\* afns_linux_init or afns_macos_init is called and enters GetAFNSEngine.
T_CallInit(t) ==
    /\ tpc[t] = "idle"
    /\ hookCalls < MaxHookCalls
    /\ hookCalls' = hookCalls + 1
    /\ lastHook' = (IF platform = "LINUX" THEN "afns_linux_init"
                                          ELSE "afns_macos_init")
    /\ tpc' = [tpc EXCEPT ![t] = "get_test"]
    /\ UNCHANGED <<platform, loaded, g_afns_engine, engines, constructed,
                   returned, targ, tlocal, raced, classVars, callVars,
                   demoVars, abiVars>>

\* The same test, taken only while no other thread is inside GetAFNSEngine,
\* as it would be under a lock.
T_Test_Locked(t) ==
    /\ tpc[t] = "get_test"
    /\ tpc[Other(t)] \notin {"get_assign", "get_return"}
    /\ tpc' = [tpc EXCEPT ![t] = IF g_afns_engine = NULL THEN "get_assign"
                                                        ELSE "get_return"]
    /\ UNCHANGED <<procVars, targ, tlocal, raced, classVars, callVars,
                   demoVars, abiVars>>

\* if (!g_afns_engine): the holder is read.  A read that conflicts with the
\* other thread's pending write is a data race, and may see either value.
T_Test(t) ==
    /\ tpc[t] = "get_test"
    /\ \E seenNull \in BOOLEAN :
          /\ Conflict(t) \/ (seenNull <=> g_afns_engine = NULL)
          /\ tpc' = [tpc EXCEPT ![t] = IF seenNull THEN "get_assign"
                                                   ELSE "get_return"]
    /\ raced' = (raced \/ Conflict(t))
    /\ UNCHANGED <<procVars, targ, tlocal, classVars, callVars, demoVars,
                   abiVars>>

\* g_afns_engine = std::make_unique<...>(): an instance is made and the holder
\* written.  Unraced, the instance the holder owned is destroyed; in a data
\* race it may as well be left behind.
T_Assign(t) ==
    /\ tpc[t] = "get_assign"
    /\ constructed' = constructed + 1
    /\ g_afns_engine' = constructed + 1
    /\ \E leaked \in BOOLEAN :
          /\ leaked => Conflict(t)
          /\ engines' = (IF leaked THEN engines
                         ELSE { e \in engines : e.id # g_afns_engine })
                           \cup {Instance(constructed + 1, AFNSEngineExtension)}
    /\ raced' = (raced \/ Conflict(t))
    /\ tpc' = [tpc EXCEPT ![t] = "get_return"]
    /\ UNCHANGED <<platform, loaded, hookCalls, lastHook, returned, targ,
                   tlocal, classVars, callVars, demoVars, abiVars>>

\* return g_afns_engine.get(): the holder is read, and the init function
\* drops what it gets.
T_Return(t) ==
    /\ tpc[t] = "get_return"
    /\ raced' = (raced \/ Conflict(t))
    /\ tpc' = [tpc EXCEPT ![t] = "idle"]
    /\ UNCHANGED <<procVars, targ, tlocal, classVars, callVars, demoVars,
                   abiVars>>

\* A JNI entry point is called.
T_NativeEnter(t) ==
    /\ tpc[t] = "idle"
    /\ \E op \in {"compile", "execute"}, jcode \in ConcCodes :
          targ' = [targ EXCEPT ![t] = <<op, jcode>>]
    /\ tpc' = [tpc EXCEPT ![t] = "native_construct"]
    /\ UNCHANGED <<procVars, tlocal, raced, classVars, callVars, demoVars,
                   abiVars>>

\* flutter::afns::AFNSEngineExtension afns_engine; on the thread's own stack.
T_NativeConstruct(t) ==
    /\ tpc[t] = "native_construct"
    /\ tlocal' = [tlocal EXCEPT ![t] = AFNSEngineExtension]
    /\ raced' = (raced \/ Conflict(t))
    /\ tpc' = [tpc EXCEPT ![t] = "native_call"]
    /\ UNCHANGED <<procVars, targ, classVars, callVars, demoVars, abiVars>>

\* afns_engine.CompileAFNSWidget(...) or afns_engine.ExecuteAFNSLogic(...).
T_NativeCall(t) ==
    /\ tpc[t] = "native_call"
    /\ LET r == IF targ[t][1] = "compile"
                THEN CompileAFNSWidget(tlocal[t], GetStringUTFChars(targ[t][2]))
                ELSE ExecuteAFNSLogic(tlocal[t], GetStringUTFChars(targ[t][2]))
       IN  tlocal' = [tlocal EXCEPT ![t] = r.state]
    /\ raced' = (raced \/ Conflict(t))
    /\ tpc' = [tpc EXCEPT ![t] = "native_return"]
    /\ UNCHANGED <<procVars, targ, classVars, callVars, demoVars, abiVars>>

\* The entry point returns and its engine goes away.
T_NativeReturn(t) ==
    /\ tpc[t] = "native_return"
    /\ tlocal' = [tlocal EXCEPT ![t] = "none"]
    /\ targ' = [targ EXCEPT ![t] = <<"none", "">>]
    /\ tpc' = [tpc EXCEPT ![t] = "idle"]
    /\ UNCHANGED <<procVars, raced, classVars, callVars, demoVars, abiVars>>

\* The next statement of a thread that is inside a call.
T_Statement(t) ==
    \/ T_Test(t)
    \/ T_Assign(t)
    \/ T_Return(t)
    \/ T_NativeConstruct(t)
    \/ T_NativeCall(t)
    \/ T_NativeReturn(t)

InitConc ==
    ClassIdle /\ CallIdle /\ DemoIdle /\ AbiIdle /\ ConcInit

NextConc ==
    \E t \in Threads :
        \/ T_CallInit(t)
        \/ T_NativeEnter(t)
        \/ T_Statement(t)

SpecConc == InitConc /\ [][NextConc]_vars

\* Both threads are about to touch the same memory, one of them writing it.
DataRace == \E t \in Threads : Conflict(t)

\* C9: nothing in the source makes a thread wait for the other: a thread
\* inside a call can always take its next statement, wherever the other
\* thread is.  (So the state of C9_Witness, where both threads are at the
\* holder and one is about to write it, is reached.)
C9_NoSynchronization ==
    \A t \in Threads : tpc[t] # "idle" => ENABLED T_Statement(t)

C9_Witness ==
    /\ DataRace
    /\ tpc[1] = "get_assign"
    /\ tpc[2] \in {"get_test", "get_assign", "get_return"}

===========================================================================
